---- MODULE Spec2Model ----
(***************************************************************************)
(* The portfolio service of final_task.py: three tables (projects,         *)
(* blogposts, contacts) behind FastAPI handlers that use one SQLAlchemy    *)
(* session per request on a SQLite file.                                   *)
(*                                                                         *)
(* Spec  : every handler is one atomic request/response.                   *)
(* SpecC : two request workers; each handler is split at its storage       *)
(*         calls (session open, query, commit, refresh, close), which is   *)
(*         where FastAPI's thread pool can interleave two requests.        *)
(*                                                                         *)
(* The handlers are modelled by their bodies.  Most of them annotate their *)
(* session parameter as `session`, a name the file never binds (it imports *)
(* `Session`); the model describes the handlers once that name resolves.   *)
(***************************************************************************)
EXTENDS Integers, Sequences, FiniteSets, TLC

\* ------------------------------------------------------------------ bounds
\* Largest primary key a table hands out before Create stops being offered.
MaxId == 2
\* Largest number of rows the three tables hold together.
MaxRows == 2
\* Requests the two workers serve together in one run of SpecC.
MaxReqs == 2

\* ------------------------------------------------------------- data model
Resources == {"Project", "BlogPost", "Contact"}

\* The resources that expose GET endpoints (Contact has none).
Readable == {"Project", "BlogPost"}

Project == {"title", "description", "link"}

BlogPost == {"title", "content"}

Contact == {"name", "email", "message"}

\* The non-id columns of a resource's table.
Fields(res) ==
  CASE res = "Project" -> Project
    [] res = "BlogPost" -> BlogPost
    [] res = "Contact" -> Contact

ProjectCreate ==
  { [title |-> "a", description |-> "b", link |-> "c"],
    [title |-> "x", description |-> "y", link |-> ""] }

BlogPostCreate ==
  { [title |-> "a", content |-> "b"],
    [title |-> "", content |-> "y"] }

ContactCreate ==
  { [name |-> "a", email |-> "b", message |-> "c"],
    [name |-> "x", email |-> "", message |-> "z"] }

\* The validated request bodies of a resource (ProjectUpdate and
\* BlogPostUpdate have the fields of the Create models).
Inputs(res) ==
  CASE res = "Project" -> ProjectCreate
    [] res = "BlogPost" -> BlogPostCreate
    [] res = "Contact" -> ContactCreate

NotFoundDetail(res) ==
  CASE res = "Project" -> "Project not found"
    [] res = "BlogPost" -> "Blog Post not found"
    [] res = "Contact" -> "Contact not found"

IdRange == 1..MaxId

VARIABLES
  tables,      \* tables[res]: the set of rows (records with id) of the table
  resp,        \* Spec: the last request and its response
  lastCreate,  \* Spec, history: the last Create whose row is untouched since
  lastDelete,  \* Spec, history: the last Delete whose id is not re-assigned since
  creates,     \* Spec, history: creates[res] = Creates so far, while pristine
  pristine,    \* Spec, history: no Delete has succeeded yet
  pc,          \* SpecC: pc[w] = where worker w's request stands
  req,         \* SpecC: req[w] = the request worker w is serving
  inst,        \* SpecC: inst[w] = the ORM instance worker w's query loaded
  sess,        \* SpecC: sess[w] = sessions opened / closed for the request
  out,         \* SpecC: out[w] = the response of worker w's request
  lastWrite,   \* SpecC, history: the last committed write to each (res, id)
  started      \* SpecC, history: requests started so far

vars == <<tables, resp, lastCreate, lastDelete, creates, pristine,
          pc, req, inst, sess, out, lastWrite, started>>

seqVars == <<resp, lastCreate, lastDelete, creates, pristine>>

concVars == <<pc, req, inst, sess, out, lastWrite, started>>

\* ------------------------------------------------------- storage operators
Ids(t) == {r.id : r \in t}

MaxOf(S) == CHOOSE m \in S : \A n \in S : n <= m

\* SQLite's rowid for an INTEGER PRIMARY KEY column without AUTOINCREMENT:
\* one more than the largest id in the table, 1 for an empty table.
NextId(t) == IF t = {} THEN 1 ELSE MaxOf(Ids(t)) + 1

\* Variant of InsertRow: one column is filled from another input key.
InsertRow_slip(t, input) ==
  LET f0 == CHOOSE f \in DOMAIN input : \E g \in DOMAIN input : input[g] # input[f]
      f1 == CHOOSE g \in DOMAIN input : input[g] # input[f0]
  IN t \cup {("id" :> NextId(t)) @@ [input EXCEPT ![f0] = input[f1]]}

\* db.add + db.commit: INSERT of the input's columns, id assigned by storage.
InsertRow(t, input) == t \cup {("id" :> NextId(t)) @@ input}

\* Variant of First: the filter on the id is missing.
First_unfiltered(t, id) ==
  IF t # {}
    THEN [found |-> TRUE, obj |-> CHOOSE r \in t : \A s \in t : r.id <= s.id]
    ELSE [found |-> FALSE]

\* db.query(M).filter(M.id == id).first().
First(t, id) ==
  IF id \in Ids(t)
    THEN [found |-> TRUE, obj |-> CHOOSE r \in t : r.id = id]
    ELSE [found |-> FALSE]

\* Variant of Dirty: the loop over the input's items ends after the first
\* key it changes.
Dirty_firstonly(obj, input) ==
  LET changed == {g \in DOMAIN input : input[g] # obj[g]}
  IN [f \in (IF changed = {} THEN {} ELSE {CHOOSE g \in changed : TRUE}) |-> input[f]]

\* setattr for every input key, as the flush sees it: the columns whose new
\* value differs from the value the instance was loaded with.
Dirty(obj, input) ==
  [f \in {g \in DOMAIN input : input[g] # obj[g]} |-> input[f]]

\* Variant of UpdateRows: the statement has no WHERE clause.
UpdateRows_nowhere(t, id, changes) ==
  { [f \in DOMAIN r |-> IF f \in DOMAIN changes THEN changes[f] ELSE r[f]] : r \in t }

\* UPDATE t SET <changes> WHERE id = ?.
UpdateRows(t, id, changes) ==
  { IF r.id = id
      THEN [f \in DOMAIN r |-> IF f \in DOMAIN changes THEN changes[f] ELSE r[f]]
      ELSE r : r \in t }

\* Variant of DeleteRows: the delete is never committed.
DeleteRows_uncommitted(t, id) == t

\* Variant of DeleteRows: the statement has no WHERE clause.
DeleteRows_all(t, id) == {}

\* DELETE FROM t WHERE id = ?.
DeleteRows(t, id) == {r \in t : r.id # id}

\* response_model=<Resource>Create: the response body keeps the fields of
\* the Create model, read from the returned instance by name, and drops
\* everything else of it (the id among it).
ResponseModel(res, obj) == [f \in Fields(res) |-> obj[f]]

\* Variant of All: the query ends in .first(), so at most one row comes back.
All_first(t) ==
  IF t = {} THEN <<>> ELSE << CHOOSE r \in t : \A s \in t : r.id <= s.id >>

RECURSIVE All(_)
\* db.query(M).all(): the rows in rowid order.
All(t) ==
  IF t = {} THEN <<>>
  ELSE LET m == CHOOSE r \in t : \A s \in t : r.id <= s.id
       IN <<m>> \o All(t \ {m})

TotalRows(tb) ==
  Cardinality(tb["Project"]) + Cardinality(tb["BlogPost"]) + Cardinality(tb["Contact"])

HTTPException(res) == [status |-> 404, detail |-> NotFoundDetail(res)]

\* ------------------------------------------------------------------- Init
InitTables == [res \in Resources |-> {}]

InitSeq ==
  /\ resp = [op |-> "none"]
  /\ lastCreate = [valid |-> FALSE]
  /\ lastDelete = [valid |-> FALSE]
  /\ creates = [res \in Resources |-> 0]
  /\ pristine = TRUE

\* --------------------------------------------- handlers, one request each
\* Whether the history entry of the last Create is about row (res, id).
Touches(res, id) == lastCreate.valid /\ lastCreate.res = res /\ lastCreate.id = id

\* POST /<resource>/ : build the row from the body, add, commit, refresh,
\* return the instance through the response model.
Create(res, input) ==
  LET t == tables[res]
      t2 == InsertRow(t, input)
      db_obj == First(t2, NextId(t)).obj
      body == ResponseModel(res, db_obj)
  IN /\ NextId(t) <= MaxId
     /\ TotalRows(tables) < MaxRows
     /\ tables' = [tables EXCEPT ![res] = t2]
     /\ resp' = [op |-> "create", res |-> res, input |-> input,
                 status |-> 200, body |-> body]
     /\ lastCreate' = [valid |-> TRUE, res |-> res, id |-> NextId(t), body |-> body]
     /\ lastDelete' = IF lastDelete.valid /\ lastDelete.res = res
                          /\ lastDelete.id = NextId(t)
                        THEN [valid |-> FALSE] ELSE lastDelete
     /\ creates' = IF pristine THEN [creates EXCEPT ![res] = @ + 1] ELSE creates
     /\ UNCHANGED pristine

\* GET /<resource>/ : every row, each through the response model.
GetAll(res) ==
  LET rows == All(tables[res])
  IN /\ resp' = [op |-> "list", res |-> res, status |-> 200,
                 body |-> [k \in 1..Len(rows) |-> ResponseModel(res, rows[k])]]
     /\ UNCHANGED <<tables, lastCreate, lastDelete, creates, pristine>>

\* GET /<resource>/{id} : the row, or 404.
GetOne(res, id) ==
  LET q == First(tables[res], id)
  IN /\ resp' = IF q.found
                  THEN [op |-> "get", res |-> res, id |-> id, status |-> 200,
                        body |-> ResponseModel(res, q.obj)]
                  ELSE [op |-> "get", res |-> res, id |-> id] @@ HTTPException(res)
     /\ UNCHANGED <<tables, lastCreate, lastDelete, creates, pristine>>

\* PUT /<resource>/{id} : 404 without a row; else setattr every input field,
\* commit, refresh, return the instance.
Update(res, id, input) ==
  LET q == First(tables[res], id)
      t2 == UpdateRows(tables[res], id, Dirty(q.obj, input))
  IN IF q.found
       THEN /\ tables' = [tables EXCEPT ![res] = t2]
            /\ resp' = [op |-> "update", res |-> res, id |-> id, input |-> input,
                        status |-> 200,
                        body |-> ResponseModel(res, First(t2, id).obj)]
            /\ lastCreate' = IF Touches(res, id) THEN [valid |-> FALSE] ELSE lastCreate
            /\ UNCHANGED <<lastDelete, creates, pristine>>
       ELSE /\ resp' = [op |-> "update", res |-> res, id |-> id] @@ HTTPException(res)
            /\ UNCHANGED <<tables, lastCreate, lastDelete, creates, pristine>>

\* DELETE /<resource>/{id} : 404 without a row; else delete, commit, return
\* the instance the query loaded.
Delete(res, id) ==
  LET q == First(tables[res], id)
  IN IF q.found
       THEN /\ tables' = [tables EXCEPT ![res] = DeleteRows(@, id)]
            /\ resp' = [op |-> "delete", res |-> res, id |-> id, status |-> 200,
                        body |-> ResponseModel(res, q.obj)]
            /\ lastCreate' = IF Touches(res, id) THEN [valid |-> FALSE] ELSE lastCreate
            /\ lastDelete' = [valid |-> TRUE, res |-> res, id |-> id]
            /\ creates' = [r \in Resources |-> 0]
            /\ pristine' = FALSE
       ELSE /\ resp' = [op |-> "delete", res |-> res, id |-> id] @@ HTTPException(res)
            /\ UNCHANGED <<tables, lastCreate, lastDelete, creates, pristine>>

create_project == \E input \in ProjectCreate : Create("Project", input)

get_projects == GetAll("Project")

get_project == \E project_id \in IdRange : GetOne("Project", project_id)

update_project ==
  \E project_id \in IdRange, input \in ProjectCreate :
    Update("Project", project_id, input)

delete_project == \E project_id \in IdRange : Delete("Project", project_id)

create_blogpost == \E input \in BlogPostCreate : Create("BlogPost", input)

get_blogposts == GetAll("BlogPost")

get_blogpost == \E blogpost_id \in IdRange : GetOne("BlogPost", blogpost_id)

update_blogpost ==
  \E blogpost_id \in IdRange, input \in BlogPostCreate :
    Update("BlogPost", blogpost_id, input)

delete_blogpost == \E blogpost_id \in IdRange : Delete("BlogPost", blogpost_id)

create_contact == \E input \in ContactCreate : Create("Contact", input)

update_contact ==
  \E contact_id \in IdRange, input \in ContactCreate :
    Update("Contact", contact_id, input)

delete_contact == \E contact_id \in IdRange : Delete("Contact", contact_id)

Workers == {1, 2}

InitConc ==
  /\ pc = [w \in Workers |-> "idle"]
  /\ req = [w \in Workers |-> [op |-> "none"]]
  /\ inst = [w \in Workers |-> [found |-> FALSE]]
  /\ sess = [w \in Workers |-> [opened |-> 0, closed |-> 0]]
  /\ out = [w \in Workers |-> [status |-> 0]]
  /\ lastWrite = [res \in Resources |-> [id \in IdRange |-> [kind |-> "none"]]]
  /\ started = 0

Init == tables = InitTables /\ InitSeq /\ InitConc

Next ==
  \/ create_project /\ UNCHANGED concVars
  \/ get_projects /\ UNCHANGED concVars
  \/ get_project /\ UNCHANGED concVars
  \/ update_project /\ UNCHANGED concVars
  \/ delete_project /\ UNCHANGED concVars
  \/ create_blogpost /\ UNCHANGED concVars
  \/ get_blogposts /\ UNCHANGED concVars
  \/ get_blogpost /\ UNCHANGED concVars
  \/ update_blogpost /\ UNCHANGED concVars
  \/ delete_blogpost /\ UNCHANGED concVars
  \/ create_contact /\ UNCHANGED concVars
  \/ update_contact /\ UNCHANGED concVars
  \/ delete_contact /\ UNCHANGED concVars

Spec == Init /\ [][Next]_vars

\* ------------------------------------- handlers split at the storage calls
\* The requests a client can send: one per route, path id and body.
Requests ==
  UNION { {[op |-> "create", res |-> r, input |-> i] : i \in Inputs(r)}
          \cup {[op |-> "update", res |-> r, id |-> n, input |-> i] :
                  n \in IdRange, i \in Inputs(r)}
          \cup {[op |-> "delete", res |-> r, id |-> n] : n \in IdRange}
          : r \in Resources }
  \cup UNION { {[op |-> "list", res |-> r]}
               \cup {[op |-> "get", res |-> r, id |-> n] : n \in IdRange}
               : r \in Readable }

\* Variant of get_db_exit: db.close() follows the yield without try/finally,
\* so an exception raised in the handler skips it.
get_db_exit_nofinally(s, raised) ==
  IF raised THEN s ELSE [s EXCEPT !.closed = @ + 1]

\* get_db after its yield: db.close() sits in a finally block, so it runs
\* whether the handler returned or raised.
get_db_exit(s, raised) == [s EXCEPT !.closed = @ + 1]

InternalError == [status |-> 500]

\* A request arrives: get_db opens the session and the handler starts.
Enter(w) ==
  /\ pc[w] \in {"idle", "done"}
  /\ started < MaxReqs
  /\ \E r \in Requests :
       /\ req' = [req EXCEPT ![w] = r]
       /\ pc' = [pc EXCEPT ![w] = IF r.op = "create" THEN "commit" ELSE "query"]
  /\ sess' = [sess EXCEPT ![w] = [opened |-> 1, closed |-> 0]]
  /\ inst' = [inst EXCEPT ![w] = [found |-> FALSE]]
  /\ out' = [out EXCEPT ![w] = [status |-> 0]]
  /\ started' = started + 1
  /\ UNCHANGED <<tables, lastWrite>>

\* db.query(M).all() of the list handlers.
QueryAll(w) ==
  /\ pc[w] = "query" /\ req[w].op = "list"
  /\ LET rows == All(tables[req[w].res])
     IN out' = [out EXCEPT ![w] =
                  [status |-> 200,
                   body |-> [k \in 1..Len(rows) |-> ResponseModel(req[w].res, rows[k])]]]
  /\ pc' = [pc EXCEPT ![w] = "close"]
  /\ UNCHANGED <<tables, req, inst, sess, lastWrite, started>>

\* db.query(M).filter(M.id == id).first() of the by-id handlers, with the
\* None check after it; the get handler returns the instance right away.
QueryFirst(w) ==
  /\ pc[w] = "query" /\ req[w].op \in {"get", "update", "delete"}
  /\ LET q == First(tables[req[w].res], req[w].id)
     IN IF q.found
          THEN /\ inst' = [inst EXCEPT ![w] = q]
               /\ IF req[w].op = "get"
                    THEN /\ out' = [out EXCEPT ![w] =
                                      [status |-> 200,
                                       body |-> ResponseModel(req[w].res, q.obj)]]
                         /\ pc' = [pc EXCEPT ![w] = "close"]
                    ELSE /\ pc' = [pc EXCEPT ![w] = "commit"]
                         /\ UNCHANGED out
          ELSE /\ out' = [out EXCEPT ![w] = HTTPException(req[w].res)]
               /\ pc' = [pc EXCEPT ![w] = "close"]
               /\ UNCHANGED inst
  /\ UNCHANGED <<tables, req, sess, lastWrite, started>>

\* db.add + db.commit of the create handlers.
CommitInsert(w) ==
  /\ pc[w] = "commit" /\ req[w].op = "create"
  /\ LET res == req[w].res
         t == tables[res]
     IN /\ NextId(t) <= MaxId
        /\ TotalRows(tables) < MaxRows
        /\ tables' = [tables EXCEPT ![res] = InsertRow(t, req[w].input)]
        /\ inst' = [inst EXCEPT ![w] =
                      [found |-> TRUE, obj |-> ("id" :> NextId(t)) @@ req[w].input]]
        /\ lastWrite' = [lastWrite EXCEPT ![res][NextId(t)] = [kind |-> "create"]]
  /\ pc' = [pc EXCEPT ![w] = "refresh"]
  /\ UNCHANGED <<req, sess, out, started>>

\* setattr + db.commit of the update handlers: the flush writes the changed
\* columns; an UPDATE that matches no row raises (StaleDataError), and
\* nothing is written when no column changed.
CommitUpdate(w) ==
  /\ pc[w] = "commit" /\ req[w].op = "update"
  /\ LET res == req[w].res
         id == req[w].id
         changes == Dirty(inst[w].obj, req[w].input)
     IN IF DOMAIN changes = {}
          THEN /\ pc' = [pc EXCEPT ![w] = "refresh"]
               /\ UNCHANGED <<tables, out, lastWrite>>
          ELSE IF id \in Ids(tables[res])
            THEN /\ tables' = [tables EXCEPT ![res] = UpdateRows(@, id, changes)]
                 /\ lastWrite' = [lastWrite EXCEPT ![res][id] =
                                    [kind |-> "update", input |-> req[w].input]]
                 /\ pc' = [pc EXCEPT ![w] = "refresh"]
                 /\ UNCHANGED out
            ELSE /\ out' = [out EXCEPT ![w] = InternalError]
                 /\ pc' = [pc EXCEPT ![w] = "close"]
                 /\ UNCHANGED <<tables, lastWrite>>
  /\ UNCHANGED <<req, inst, sess, started>>

\* db.delete + db.commit of the delete handlers, which then return the
\* instance as the query loaded it.
CommitDelete(w) ==
  /\ pc[w] = "commit" /\ req[w].op = "delete"
  /\ LET res == req[w].res
         id == req[w].id
     IN /\ tables' = [tables EXCEPT ![res] = DeleteRows(@, id)]
        /\ lastWrite' = [lastWrite EXCEPT ![res][id] = [kind |-> "delete"]]
        /\ out' = [out EXCEPT ![w] =
                     [status |-> 200, body |-> ResponseModel(res, inst[w].obj)]]
  /\ pc' = [pc EXCEPT ![w] = "close"]
  /\ UNCHANGED <<req, inst, sess, started>>

\* db.refresh(instance) of the create and update handlers, which then return
\* it; refreshing a row that is gone raises.
Refresh(w) ==
  /\ pc[w] = "refresh"
  /\ LET q == First(tables[req[w].res], inst[w].obj.id)
     IN IF q.found
          THEN /\ inst' = [inst EXCEPT ![w] = q]
               /\ out' = [out EXCEPT ![w] =
                            [status |-> 200, body |-> ResponseModel(req[w].res, q.obj)]]
          ELSE /\ out' = [out EXCEPT ![w] = InternalError]
               /\ UNCHANGED inst
  /\ pc' = [pc EXCEPT ![w] = "close"]
  /\ UNCHANGED <<tables, req, sess, lastWrite, started>>

\* A storage call of the handler raises (the database is unavailable): the
\* failure propagates out of the handler.
StorageFails(w) ==
  /\ pc[w] \in {"query", "commit", "refresh"}
  /\ out' = [out EXCEPT ![w] = InternalError]
  /\ pc' = [pc EXCEPT ![w] = "close"]
  /\ UNCHANGED <<tables, req, inst, sess, lastWrite, started>>

\* get_db resumes after its yield and the request is over.
Exit(w) ==
  /\ pc[w] = "close"
  /\ sess' = [sess EXCEPT ![w] = get_db_exit(@, out[w].status # 200)]
  /\ pc' = [pc EXCEPT ![w] = "done"]
  /\ UNCHANGED <<tables, req, inst, out, lastWrite, started>>

\* The database file outlives the process: a run starts on the file an
\* earlier run left, here an empty one or one holding a single project.
InitC ==
  /\ tables \in { InitTables,
                  [InitTables EXCEPT !["Project"] =
                     InsertRow({}, [title |-> "a", description |-> "y", link |-> "c"])] }
  /\ InitSeq
  /\ InitConc

NextC ==
  \E w \in Workers :
    \/ Enter(w) /\ UNCHANGED seqVars
    \/ QueryAll(w) /\ UNCHANGED seqVars
    \/ QueryFirst(w) /\ UNCHANGED seqVars
    \/ CommitInsert(w) /\ UNCHANGED seqVars
    \/ CommitUpdate(w) /\ UNCHANGED seqVars
    \/ CommitDelete(w) /\ UNCHANGED seqVars
    \/ Refresh(w) /\ UNCHANGED seqVars
    \/ StorageFails(w) /\ UNCHANGED seqVars
    \/ Exit(w) /\ UNCHANGED seqVars

SpecC == InitC /\ [][NextC]_vars

\* ---------------------------------------------------------------- claims
\* The row with the given id, for ids the table holds.
RowOf(t, id) == CHOOSE r \in t : r.id = id

ByIdOps == {"get", "update", "delete"}

\* C1: a get, update or delete by an id that has no row in the resource's
\* table answers 404 with the resource's message and leaves every table as
\* it was before the request.
C1_NotFoundLeavesStorage ==
  [][ (resp'.op \in ByIdOps /\ resp'.id \notin Ids(tables[resp'.res]))
        => /\ resp'.status = 404
           /\ resp'.detail = NotFoundDetail(resp'.res)
           /\ tables' = tables ]_vars

\* C1 witness: an update of a contact id without a row was answered 404
\* while the tables hold rows.
C1_Witness ==
  /\ resp.op = "update" /\ resp.res = "Contact" /\ resp.status = 404
  /\ tables["Contact"] # {}
  /\ resp.id \notin Ids(tables["Contact"])

\* C2: the body returned by Create on Project or BlogPost equals the input,
\* and a GetById of the id that Create was assigned, with no update or delete
\* of that id in between, answers 200 with the same body.
C2_CreateThenGet ==
  /\ (resp.op = "create" /\ resp.res \in Readable) => resp.body = resp.input
  /\ (resp.op = "get" /\ Touches(resp.res, resp.id))
       => (resp.status = 200 /\ resp.body = lastCreate.body)

\* C2 witness: a get of the project created second, after its Create,
\* returned the created body.
C2_Witness ==
  /\ resp.op = "get" /\ resp.res = "Project" /\ resp.id = 2
  /\ Touches("Project", 2)
  /\ resp.status = 200 /\ resp.body = lastCreate.body
  /\ Cardinality(tables["Project"]) = 2

\* C3: Create returns the stored object including its server-assigned id,
\* and no two rows of a table share an id.
C3_CreateReturnsId ==
  /\ resp.op = "create"
       => ("id" \in DOMAIN resp.body /\ resp.body = RowOf(tables[resp.res], lastCreate.id))
  /\ \A res \in Resources : \A r1, r2 \in tables[res] : r1.id = r2.id => r1 = r2

\* C4: an update of an id that has a row answers 200 with the input's
\* values, replaces that row by the input under the same id, and leaves
\* every other row of the table and every other table unchanged.
C4_UpdateOverwrites ==
  [][ (resp'.op = "update" /\ resp'.id \in Ids(tables[resp'.res]))
        => LET res == resp'.res
               old == RowOf(tables[res], resp'.id)
               new == ("id" :> resp'.id) @@ resp'.input
           IN /\ resp'.status = 200
              /\ resp'.body = resp'.input
              /\ tables'[res] = (tables[res] \ {old}) \cup {new}
              /\ \A r2 \in Resources \ {res} : tables'[r2] = tables[r2] ]_vars

\* C4 witness: a project was updated to an input while a second project
\* with other values sits beside it.
C4_Witness ==
  /\ resp.op = "update" /\ resp.res = "Project" /\ resp.status = 200
  /\ \E r \in tables["Project"] :
       r.id = resp.id /\ ResponseModel("Project", r) = resp.input
  /\ \E r \in tables["Project"] :
       r.id # resp.id /\ ResponseModel("Project", r) # resp.input

\* C5: an update repeated right after itself, with the same id and the same
\* input, leaves storage as the first one left it and returns the same
\* response.
C5_UpdateIdempotent ==
  [][ ( /\ resp.op = "update" /\ resp.status = 200
        /\ resp'.op = "update" /\ resp'.res = resp.res /\ resp'.id = resp.id
        /\ (resp'.status = 200 => resp'.input = resp.input) )
        => (tables' = tables /\ resp' = resp) ]_vars

\* C5 witness: a blog post was updated to an input with an empty title.
C5_Witness ==
  /\ resp.op = "update" /\ resp.res = "BlogPost" /\ resp.status = 200
  /\ resp.input.title = ""
  /\ \E r \in tables["BlogPost"] :
       r.id = resp.id /\ ResponseModel("BlogPost", r) = resp.input

\* C6: after a successful delete the id has no row; an id without a row gets
\* one only by a Create that is assigned that id; and while the deleted id
\* is not re-assigned, a get, update or delete of it answers 404.
C6_DeletedStaysGone ==
  [][ /\ (resp'.op = "delete" /\ resp'.status = 200)
           => resp'.id \notin Ids(tables'[resp'.res])
      /\ \A res \in Resources, id \in IdRange :
           (id \notin Ids(tables[res]) /\ id \in Ids(tables'[res]))
             => (resp'.op = "create" /\ resp'.res = res /\ id = NextId(tables[res]))
      /\ ( /\ lastDelete.valid
           /\ resp'.op \in ByIdOps
           /\ resp'.res = lastDelete.res /\ resp'.id = lastDelete.id )
           => (resp'.status = 404 /\ resp'.id \notin Ids(tables'[resp'.res])) ]_vars

\* C6 witness: a get of a deleted project id, not re-assigned since, was
\* answered 404 while another project is stored.
C6_Witness ==
  /\ lastDelete.valid /\ lastDelete.res = "Project"
  /\ resp.op = "get" /\ resp.res = "Project" /\ resp.id = lastDelete.id
  /\ resp.status = 404
  /\ tables["Project"] # {}

\* C7: a delete of an id that has a row answers 200 with the values the row
\* had, removes that row and nothing else.
C7_DeleteRemovesOne ==
  [][ (resp'.op = "delete" /\ resp'.id \in Ids(tables[resp'.res]))
        => LET res == resp'.res
               old == RowOf(tables[res], resp'.id)
           IN /\ resp'.status = 200
              /\ resp'.body = ResponseModel(res, old)
              /\ tables'[res] = tables[res] \ {old}
              /\ \A r2 \in Resources \ {res} : tables'[r2] = tables[r2] ]_vars

\* C7 witness: a contact was deleted and another contact is still stored.
C7_Witness ==
  /\ resp.op = "delete" /\ resp.res = "Contact" /\ resp.status = 200
  /\ Cardinality(tables["Contact"]) = 1
  /\ resp.id \notin Ids(tables["Contact"])

\* How many entries of the sequence equal v.
Count(seq, v) == Cardinality({k \in 1..Len(seq) : seq[k] = v})

\* C8: ListAll returns one entry per stored row, with the row's current
\* values, and after N Creates with no delete its size is N.
C8_ListAllIsTable ==
  resp.op = "list"
    => /\ resp.status = 200
       /\ Len(resp.body) = Cardinality(tables[resp.res])
       /\ \A v \in Inputs(resp.res) :
            Count(resp.body, v)
              = Cardinality({r \in tables[resp.res] : ResponseModel(resp.res, r) = v})
       /\ \A k \in 1..Len(resp.body) : resp.body[k] \in Inputs(resp.res)
       /\ pristine => Len(resp.body) = creates[resp.res]

\* C8 witness: a list of two projects after two Creates and no delete.
C8_Witness ==
  /\ resp.op = "list" /\ resp.res = "Project"
  /\ Len(resp.body) = 2
  /\ pristine /\ creates["Project"] = 2

\* C9: a request in progress has opened exactly one session, and a request
\* that is over has closed it, whatever its outcome.
C9_SessionClosed ==
  \A w \in Workers :
    /\ sess[w].opened <= 1 /\ sess[w].closed <= sess[w].opened
    /\ pc[w] # "idle" => sess[w].opened = 1
    /\ pc[w] \in {"query", "commit", "refresh", "close"} => sess[w].closed = 0
    /\ pc[w] = "done" => sess[w].closed = 1

\* C9 witness: one request ended in 404 and the other in a storage failure,
\* both over.
C9_Witness ==
  \E w1, w2 \in Workers :
    /\ pc[w1] = "done" /\ out[w1].status = 404
    /\ pc[w2] = "done" /\ out[w2].status = 500

\* C10: the last committed write to a row wins: after an update the row
\* equals that update's input, and after a delete the row is absent.
C10_LastWriteWins ==
  \A res \in Resources, id \in IdRange :
    /\ lastWrite[res][id].kind = "update"
         => /\ id \in Ids(tables[res])
            /\ ResponseModel(res, RowOf(tables[res], id)) = lastWrite[res][id].input
    /\ lastWrite[res][id].kind = "delete" => id \notin Ids(tables[res])

====
